---------------------------- MODULE Spec2Model ----------------------------
(***************************************************************************)
(* A model of scripts/obsfile_params_check.py (class obsfile_params_check). *)
(*                                                                         *)
(* Python strings are sequences of one-character strings, so that split,   *)
(* join, slicing, comparison and concatenation are computed and not        *)
(* assumed.  The remote hosting service is the variable repo: a function   *)
(* from repository-relative paths to entries (a directory or a file with   *)
(* its bytes).  One instance of the class is modelled; its retained        *)
(* listing self.__content is the variable content.                         *)
(***************************************************************************)
EXTENDS Naturals, Sequences, FiniteSets, TLC

VARIABLES
    repo,      \* the remote repository u/r: path -> entry
    input,     \* the arguments of a pure call, and what exec and eval do
    other,     \* a second instance on the same remote: [content, prev, call]
    content,   \* self.__content: [set, files]
    prev,      \* self.__content as it was when the last call started
    call,      \* the last call: [op, path, arg, status, value, error]
    pc,        \* "idle", or "loop" inside list_from_launch's while loop
    elements,  \* list_from_launch: the worklist of XML elements
    nodes,     \* list_from_launch: the non-include elements collected
    turns      \* list_from_launch: the turns its while loop has taken

vars == <<repo, input, other, content, prev, call, pc, elements, nodes, turns>>

---------------------------------------------------------------------------
(* Bounds of the model.                                                   *)

\* longest parameter list given to diff
MaxLen == 3
\* longest text of an obsfile, in characters
MaxText == 5
\* most top-level elements in one launch file
MaxChildren == 2
\* most trigger references in one script
MaxRefs == 2

---------------------------------------------------------------------------
(* Python strings.                                                        *)

\* ord(c) for the characters the model uses
Ord(c) ==
    CASE c = "\n" -> 10 [] c = "\r" -> 13 [] c = " " -> 32 [] c = "$" -> 36
      [] c = "'" -> 39 [] c = "-" -> 45 [] c = "." -> 46 [] c = "/" -> 47
      [] c = "7" -> 55 [] c = "<" -> 60 [] c = "=" -> 61 [] c = ">" -> 62
      [] c = "?" -> 63 [] c = "[" -> 91 [] c = "]" -> 93
      [] c = "a" -> 97 [] c = "b" -> 98 [] c = "c" -> 99 [] c = "d" -> 100
      [] c = "e" -> 101 [] c = "f" -> 102 [] c = "g" -> 103 [] c = "h" -> 104
      [] c = "i" -> 105 [] c = "k" -> 107 [] c = "l" -> 108 [] c = "n" -> 110
      [] c = "o" -> 111 [] c = "p" -> 112 [] c = "q" -> 113 [] c = "r" -> 114
      [] c = "s" -> 115 [] c = "t" -> 116 [] c = "u" -> 117 [] c = "v" -> 118
      [] c = "w" -> 119 [] c = "x" -> 120 [] c = "y" -> 121 [] c = "z" -> 122
      [] OTHER -> 255

RECURSIVE StrLess(_, _)
\* a < b for Python strings: code point order, a proper prefix first
StrLess(a, b) ==
    IF b = <<>> THEN FALSE
    ELSE IF a = <<>> THEN TRUE
    ELSE IF Ord(Head(a)) # Ord(Head(b)) THEN Ord(Head(a)) < Ord(Head(b))
    ELSE StrLess(Tail(a), Tail(b))

StrLeq(a, b) == a = b \/ StrLess(a, b)

\* whether a list of strings is in ascending order
IsSorted(s) == \A i \in 1..Len(s) : \A j \in 1..Len(s) : i < j => StrLeq(s[i], s[j])

RECURSIVE SortedSeq(_)
\* sorted(S) of a set of strings
SortedSeq(S) ==
    IF S = {} THEN <<>>
    ELSE LET m == CHOOSE x \in S : \A y \in S : StrLeq(x, y)
         IN  <<m>> \o SortedSeq(S \ {m})

\* the elements of a list
Range(s) == {s[i] : i \in 1..Len(s)}

\* the index of the first occurrence of character c in s, 0 when absent
Find(s, c) ==
    IF \E i \in 1..Len(s) : s[i] = c
    THEN CHOOSE i \in 1..Len(s) : s[i] = c /\ \A j \in 1..(i - 1) : s[j] # c
    ELSE 0

RECURSIVE Split(_, _, _)
\* s.split(c, n): at most n splits; n = Len(s) splits everywhere
Split(s, c, n) ==
    IF n = 0 \/ Find(s, c) = 0 THEN <<s>>
    ELSE LET i == Find(s, c)
         IN  <<SubSeq(s, 1, i - 1)>> \o Split(SubSeq(s, i + 1, Len(s)), c, n - 1)

RECURSIVE Join(_, _)
\* sep.join(parts)
Join(parts, sep) ==
    IF parts = <<>> THEN <<>>
    ELSE IF Len(parts) = 1 THEN parts[1]
    ELSE parts[1] \o sep \o Join(Tail(parts), sep)

\* s[-n:]
Suffix(s, n) == IF Len(s) <= n THEN s ELSE SubSeq(s, Len(s) - n + 1, Len(s))

\* the outcome of a call: a returned value or a raised exception
Return(v) == [status |-> "return", value |-> v, error |-> "none"]
Raise(e) == [status |-> "raise", value |-> <<>>, error |-> e]

---------------------------------------------------------------------------
(* The remote repository, as the Github client shows it.                  *)

\* the one repository the remote holds: u/r
RepoUser == <<"u">>
RepoName == <<"r">>
SLASH == <<"/">>

\* the directory a repository-relative path lies in ("" for the root)
Parent(p) ==
    LET parts == Split(p, "/", Len(p))
    IN  Join(SubSeq(parts, 1, Len(parts) - 1), SLASH)

\* a ContentFile: its path and type (its content is read from repo)
ContentFile(p) == [path |-> p, type |-> repo[p].type]

\* repo.get_contents(directory): the entries of a directory, as a list, or
\* the one ContentFile of a file; raises for a path that is not there
GetContents(directory) ==
    IF directory # <<>> /\ directory \notin DOMAIN repo
    THEN Raise("UnknownObjectException")
    ELSE IF directory # <<>> /\ repo[directory].type # "dir"
    THEN Return([isList |-> FALSE, items |-> <<ContentFile(directory)>>])
    ELSE LET kids == {p \in DOMAIN repo : Parent(p) = directory}
             order == SortedSeq(kids)
         IN  Return([isList |-> TRUE,
                     items |-> [i \in 1..Len(order) |-> ContentFile(order[i])]])

RECURSIVE ListLoopNoDirs(_, _)
\* the worklist loop with the recursion into directories left out
ListLoopNoDirs(contents, acc) ==
    IF contents = <<>> THEN acc
    ELSE LET file_content == Head(contents)
         IN  IF file_content.type = "dir"
             THEN ListLoopNoDirs(Tail(contents), acc)
             ELSE ListLoopNoDirs(Tail(contents), Append(acc, file_content))

RECURSIVE ListLoop(_, _)
\* list_files' while loop: pop the first entry; a directory's entries go to
\* the end of the worklist, anything else is appended to self.__content
ListLoop(contents, acc) ==
    IF contents = <<>> THEN acc
    ELSE LET file_content == Head(contents)
         IN  IF file_content.type = "dir"
             THEN ListLoop(Tail(contents) \o GetContents(file_content.path).value.items, acc)
             ELSE ListLoop(Tail(contents), Append(acc, file_content))

\* the end of list_files: the paths of the files collected, which the
\* instance retains as self.__content
ListResult(files) ==
    [res |-> Return([i \in 1..Len(files) |-> files[i].path]),
     content |-> [set |-> TRUE, files |-> files]]

\* list_files with self.__content not emptied before the worklist is
\* drained
ListFromKept(got, cont) ==
    IF got.status = "raise" THEN [res |-> got, content |-> cont]
    ELSE ListResult(ListLoop(got.value.items, cont.files))

\* list_files from the answer of the first get_contents on: a single
\* ContentFile is wrapped in a list, then the worklist is drained
ListFrom(got, cont) ==
    IF got.status = "raise" THEN [res |-> got, content |-> cont]
    ELSE ListResult(ListLoop(got.value.items, <<>>))

\* list_files from the split path on: the path needs a user and a
\* repository, the directory defaults to the root
ListParts(parts, cont) ==
    IF Len(parts) < 2
    THEN [res |-> Raise("IndexError"), content |-> cont]
    ELSE IF ~(parts[1] = RepoUser /\ parts[2] = RepoName)
    THEN [res |-> Raise("UnknownObjectException"), content |-> cont]
    ELSE ListFrom(GetContents(IF Len(parts) >= 3 THEN parts[3] ELSE <<>>), cont)

\* list_files(path) on an instance whose retained listing is cont: the
\* outcome and the retained listing afterwards
ListFiles(path, cont) == ListParts(Split(path, "/", 2), cont)

\* the last component of a path: content.path.split("/")[-1]
BaseName(p) == LET parts == Split(p, "/", Len(p)) IN parts[Len(parts)]

\* get_file_dict after its list_files: one {file name: path} per listed file
FileDict(lf) ==
    IF lf.res.status = "raise" THEN lf
    ELSE [res |-> Return([i \in 1..Len(lf.content.files) |->
                            [name |-> BaseName(lf.content.files[i].path),
                             path |-> lf.content.files[i].path]]),
          content |-> lf.content]

\* get_file_dict(path)
GetFileDict(path, cont) == FileDict(ListFiles(path, cont))

\* the byte that is not valid UTF-8
BadByte == "xFF"

\* base64.b64decode(content).decode(): the file's bytes as text
Decode(bytes) ==
    IF \E i \in 1..Len(bytes) : bytes[i] = BadByte
    THEN Raise("UnicodeDecodeError")
    ELSE Return(bytes)

\* read_file after its list_files, with the test of the number of listed
\* files left out
ReadFirstListed(lf) ==
    IF lf.res.status = "raise" THEN lf
    ELSE IF Len(lf.content.files) = 0
    THEN [res |-> Raise("IndexError"), content |-> lf.content]
    ELSE [res |-> Decode(repo[lf.content.files[1].path].bytes),
          content |-> lf.content]

\* read_file after its list_files: more than one listed file is refused,
\* the first is decoded; indexing an empty listing raises IndexError
ReadListed(lf) ==
    IF lf.res.status = "raise" THEN lf
    ELSE IF Len(lf.content.files) > 1
    THEN [res |-> Raise("ValueError"), content |-> lf.content]
    ELSE IF Len(lf.content.files) = 0
    THEN [res |-> Raise("IndexError"), content |-> lf.content]
    ELSE [res |-> Decode(repo[lf.content.files[1].path].bytes),
          content |-> lf.content]

\* read_file(path)
ReadFile(path, cont) == ReadListed(ListFiles(path, cont))

---------------------------------------------------------------------------
(* The state after construction, and the calls on the accessor.           *)

\* __init__ sets no listing: self.__content does not exist yet
NoContent == [set |-> FALSE, files |-> <<>>]
NoCall ==
    [op |-> "none", path |-> <<>>, arg |-> <<>>,
     status |-> "none", value |-> <<>>, error |-> "none"]
NoInput == [none |-> TRUE]

\* a second instance right after its __init__
NoOther == [content |-> NoContent, prev |-> NoContent, call |-> NoCall]

\* the instance right after __init__, in front of the remote repository r
InitWith(r, i) ==
    /\ repo = r
    /\ input = i
    /\ other = NoOther
    /\ content = NoContent
    /\ prev = NoContent
    /\ call = NoCall
    /\ pc = "idle"
    /\ elements = <<>>
    /\ nodes = <<>>
    /\ turns = 0

\* a call of op(path) that ended with outcome r
Called(op, path, arg, r) ==
    /\ call' = [op |-> op, path |-> path, arg |-> arg, status |-> r.res.status,
                value |-> r.res.value, error |-> r.res.error]
    /\ content' = r.content
    /\ prev' = content
    /\ UNCHANGED <<repo, input, other, pc, elements, nodes, turns>>

DoListFiles(path) == pc = "idle" /\ Called("list_files", path, <<>>, ListFiles(path, content))
DoGetFileDict(path) == pc = "idle" /\ Called("get_file_dict", path, <<>>, GetFileDict(path, content))
DoReadFile(path) == pc = "idle" /\ Called("read_file", path, <<>>, ReadFile(path, content))

\* the paths a remote tree of the accessor model may hold
TreePaths ==
    {<<"f">>, <<"d">>, <<"d", "/", "g">>, <<"d", "/", "e">>,
     <<"d", "/", "e", "/", "h">>}

\* what a path of the tree may be
TreeKinds ==
    {[type |-> "none", bytes |-> <<>>], [type |-> "dir", bytes |-> <<>>],
     [type |-> "file", bytes |-> <<"x">>], [type |-> "file", bytes |-> <<BadByte>>]}

\* the remote trees: every entry lies in the root or in a directory
Trees ==
    LET all == {t \in [TreePaths -> TreeKinds] :
                  \A p \in TreePaths :
                     t[p].type # "none" /\ Parent(p) # <<>> => t[Parent(p)].type = "dir"}
    IN  {[p \in {q \in TreePaths : t[q].type # "none"} |-> t[p]] : t \in all}

\* the path arguments: no repository, the repository, entries, another repository
TreeArgs ==
    {RepoUser, RepoUser \o SLASH \o RepoName, RepoUser \o SLASH \o <<"q">>}
      \cup {RepoUser \o SLASH \o RepoName \o SLASH \o p : p \in TreePaths}

InitAccessor == \E t \in Trees : InitWith(t, NoInput)

NextAccessor ==
    \E path \in TreeArgs :
       \/ DoListFiles(path)
       \/ DoGetFileDict(path)
       \/ DoReadFile(path)

SpecAccessor == InitAccessor /\ [][NextAccessor]_vars

---------------------------------------------------------------------------
(* What a path names in the remote tree, read off the paths themselves.   *)

\* path is prefix followed by rest
StartsWith(path, prefix) ==
    Len(path) >= Len(prefix) /\ SubSeq(path, 1, Len(prefix)) = prefix

RepoPrefix == RepoUser \o SLASH \o RepoName

\* whether the argument names the repository or a path inside it
InRepo(path) == path = RepoPrefix \/ StartsWith(path, RepoPrefix \o SLASH)

\* the repository-relative part of such an argument
Target(path) == SubSeq(path, Len(RepoPrefix) + 2, Len(path))

\* the non-directory entries at or below the target
FilesUnder(t) ==
    {p \in DOMAIN repo :
        /\ repo[p].type # "dir"
        /\ \/ t = <<>>
           \/ p = t
           \/ StartsWith(p, t \o SLASH)}

\* whether the target exists in the tree
Exists(t) == t = <<>> \/ t \in DOMAIN repo

NoDuplicates(s) == \A i \in 1..Len(s) : \A j \in 1..Len(s) : s[i] = s[j] => i = j

\* C4: list_files of a path of the tree returns, and returns exactly the
\* non-directory entries that lie under the path, each once and no directory
C4_ListFilesExact ==
    call.op = "list_files" /\ InRepo(call.path) /\ Exists(Target(call.path)) =>
        /\ call.status = "return"
        /\ Range(call.value) = FilesUnder(Target(call.path))
        /\ NoDuplicates(call.value)
        /\ \A i \in 1..Len(call.value) : repo[call.value[i]].type # "dir"

\* list_files of the repository returned a file of the root and one two
\* directories down
C4_Witness ==
    /\ call.op = "list_files" /\ call.path = RepoPrefix /\ call.status = "return"
    /\ <<"f">> \in Range(call.value)
    /\ <<"d", "/", "e", "/", "h">> \in Range(call.value)
    /\ <<"d", "/", "g">> \in Range(call.value)

\* how many files the listing of a read_file's path holds
Matched(path) ==
    IF InRepo(path) /\ Exists(Target(path))
    THEN Cardinality(FilesUnder(Target(path))) ELSE 0

\* C3: read_file returns only when its listing holds exactly one file, and
\* then the decoded bytes of that file; with no file or several it raises
C3_ReadFileUnique ==
    call.op = "read_file" =>
        /\ call.status = "return" =>
              /\ Matched(call.path) = 1
              /\ \E p \in FilesUnder(Target(call.path)) : call.value = repo[p].bytes
        /\ Matched(call.path) > 1 => call.status = "raise" /\ call.error = "ValueError"
        /\ Matched(call.path) = 0 =>
              call.status = "raise" /\ call.error \in {"IndexError", "UnknownObjectException"}

\* read_file of a directory with two files below it raised ValueError
C3_Witness ==
    /\ call.op = "read_file" /\ call.status = "raise" /\ call.error = "ValueError"
    /\ Matched(call.path) = 2

\* read_file of a directory that holds no file raised on the empty listing
C3_WitnessEmpty ==
    /\ call.op = "read_file" /\ call.status = "raise" /\ call.error = "IndexError"
    /\ Exists(Target(call.path)) /\ InRepo(call.path) /\ Matched(call.path) = 0

\* read_file of a path that names one file returned its text
C3_WitnessOne ==
    /\ call.op = "read_file" /\ call.status = "return" /\ call.value = <<"x">>

---------------------------------------------------------------------------
(* Two instances of the accessor in front of the same remote repository:  *)
(* each makes its own sequence of calls.                                  *)

\* a call of op(path) on the second instance that ended with outcome r
OtherCalled(op, path, r) ==
    /\ other' = [content |-> r.content,
                 prev |-> other.content,
                 call |-> [op |-> op, path |-> path, arg |-> <<>>,
                           status |-> r.res.status, value |-> r.res.value,
                           error |-> r.res.error]]
    /\ UNCHANGED <<repo, input, content, prev, call, pc, elements, nodes, turns>>

OtherListFiles(path) ==
    pc = "idle" /\ OtherCalled("list_files", path, ListFiles(path, other.content))
OtherGetFileDict(path) ==
    pc = "idle" /\ OtherCalled("get_file_dict", path, GetFileDict(path, other.content))
OtherReadFile(path) ==
    pc = "idle" /\ OtherCalled("read_file", path, ReadFile(path, other.content))

\* the path arguments of the two instances: no repository, the repository,
\* a file or directory of the root, a path that is not there
PairArgs ==
    {RepoUser, RepoUser \o SLASH \o RepoName,
     RepoUser \o SLASH \o RepoName \o SLASH \o <<"f">>,
     RepoUser \o SLASH \o RepoName \o SLASH \o <<"d">>,
     RepoUser \o SLASH \o RepoName \o SLASH \o <<"z">>}

\* the remote trees of the two instances: those two levels deep
PairTrees == {t \in Trees : <<"d", "/", "e">> \notin DOMAIN t}

InitPair == \E t \in PairTrees : InitWith(t, NoInput)

NextPair ==
    \E path \in PairArgs :
       \/ DoListFiles(path)
       \/ DoGetFileDict(path)
       \/ DoReadFile(path)
       \/ OtherListFiles(path)
       \/ OtherGetFileDict(path)
       \/ OtherReadFile(path)

SpecPair == InitPair /\ [][NextPair]_vars

\* what a caller sees of a call: returned value or raised exception
Outcome(c) == [status |-> c.status, value |-> c.value, error |-> c.error]

\* C11: when the two instances have each made the same list_files or
\* read_file call, whatever calls each made before it (calls that raised
\* among them), the two calls had the same outcome: the outcome depends
\* only on the path and the remote repository
C11_OutcomeIgnoresHistory ==
    /\ call.op \in {"list_files", "read_file"}
    /\ other.call.op = call.op
    /\ other.call.path = call.path
    => Outcome(call) = Outcome(other.call)

\* read_file of one file returned the same text on an instance that had
\* two files listed before the call and on one that had made no call
C11_Witness ==
    /\ call.op = "read_file" /\ call.status = "return"
    /\ other.call.op = "read_file" /\ other.call.path = call.path
    /\ prev.set /\ Len(prev.files) >= 2
    /\ other.prev = NoContent
    /\ Outcome(other.call) = Outcome(call)

\* list_files of a directory gave the same listing on an instance that
\* retained no listing before the call and on one that retained other files
C11_WitnessAfterRaise ==
    /\ call.op = "list_files" /\ call.status = "return" /\ call.value # <<>>
    /\ other.call.op = "list_files" /\ other.call.path = call.path
    /\ prev = NoContent
    /\ other.prev.set /\ other.prev.files # content.files
    /\ Outcome(other.call) = Outcome(call)

\* C10: a call that ends by raising leaves the retained listing as it was
\* before the call
C10_NoMutationOnFailure ==
    call.status = "raise" => content = prev

---------------------------------------------------------------------------
(* diff: the set reconciler.                                              *)

RECURSIVE BucketDeclared(_, _, _)
\* diff's first loop: each declared parameter goes to used or to not_used
BucketDeclared(rest, params_used, acc) ==
    IF rest = <<>> THEN acc
    ELSE LET param == Head(rest)
         IN  IF param \in Range(params_used)
             THEN BucketDeclared(Tail(rest), params_used,
                                 [acc EXCEPT !.used = Append(@, param)])
             ELSE BucketDeclared(Tail(rest), params_used,
                                 [acc EXCEPT !.not_used = Append(@, param)])

RECURSIVE BucketUsed(_, _, _)
\* diff's second loop: each used parameter that is not declared
BucketUsed(rest, params_declared, acc) ==
    IF rest = <<>> THEN acc
    ELSE LET param == Head(rest)
         IN  IF param \notin Range(params_declared)
             THEN BucketUsed(Tail(rest), params_declared, Append(acc, param))
             ELSE BucketUsed(Tail(rest), params_declared, acc)

\* diff with the second loop's membership test left out
DiffAllUsed(params_declared, params_used) ==
    LET first == BucketDeclared(params_declared, params_used,
                                [used |-> <<>>, not_used |-> <<>>])
    IN  [used |-> first.used, not_used |-> first.not_used,
         not_declared |-> params_used]

\* s[::-1]
Reverse(s) == [i \in 1..Len(s) |-> s[Len(s) + 1 - i]]

\* diff with every bucket built by insert(0, param) instead of append
DiffPrepend(params_declared, params_used) ==
    LET first == BucketDeclared(params_declared, params_used,
                                [used |-> <<>>, not_used |-> <<>>])
    IN  [used |-> Reverse(first.used), not_used |-> Reverse(first.not_used),
         not_declared |-> Reverse(BucketUsed(params_used, params_declared, <<>>))]

\* diff(params_declared, params_used)
Diff(params_declared, params_used) ==
    LET first == BucketDeclared(params_declared, params_used,
                                [used |-> <<>>, not_used |-> <<>>])
    IN  [used |-> first.used, not_used |-> first.not_used,
         not_declared |-> BucketUsed(params_used, params_declared, <<>>)]

\* the parameter names of the model
ParamNames == {<<"a">>, <<"a", "b">>, <<"b">>}

\* the lists of at most n of them
RECURSIVE ListsUpTo(_, _)
ListsUpTo(S, n) ==
    IF n = 0 THEN {<<>>}
    ELSE LET shorter == ListsUpTo(S, n - 1)
         IN  shorter \cup {Append(l, x) : l \in {m \in shorter : Len(m) = n - 1}, x \in S}

ParamLists == ListsUpTo(ParamNames, MaxLen)

\* a remote repository with nothing in it
EmptyRepo == [p \in {} |-> [type |-> "none", bytes |-> <<>>]]

\* check.diff(declared, used), on the two lists the behaviour started with
DoDiff ==
    /\ pc = "idle"
    /\ Called("diff", <<>>, <<input.declared, input.used>>,
              [res |-> Return(Diff(input.declared, input.used)), content |-> content])

InitDiff ==
    \E d \in ParamLists, u \in ParamLists :
       InitWith(EmptyRepo, [declared |-> d, used |-> u])

NextDiff == DoDiff

SpecDiff == InitDiff /\ [][NextDiff]_vars

\* C1: the three buckets of diff are declared /\ used, declared \ used and
\* used \ declared, and no element is in two of them
C1_DiffPartition ==
    call.op = "diff" =>
        LET D == Range(call.arg[1])
            U == Range(call.arg[2])
            used == Range(call.value.used)
            not_used == Range(call.value.not_used)
            not_declared == Range(call.value.not_declared)
        IN  /\ used = D \cap U
            /\ not_used = D \ U
            /\ not_declared = U \ D
            /\ used \cup not_used \cup not_declared = D \cup U
            /\ used \cap not_used = {}
            /\ used \cap not_declared = {}
            /\ not_used \cap not_declared = {}

\* a diff whose three buckets are all non-empty
C1_Witness ==
    /\ call.op = "diff"
    /\ call.value.used # <<>>
    /\ call.value.not_used # <<>>
    /\ call.value.not_declared # <<>>

\* C6 as claimed: each of the three lists diff returns is sorted ascending
C6_BucketsSorted ==
    call.op = "diff" =>
        /\ IsSorted(call.value.used)
        /\ IsSorted(call.value.not_used)
        /\ IsSorted(call.value.not_declared)

\* the elements of s that are in S, in the order of s
Keep(s, S) == LET In(x) == x \in S IN SelectSeq(s, In)

\* C6 as amended: each list keeps the order of the list it was drawn from
\* (used and not_used that of declared, not_declared that of used), so it
\* is sorted when that list is
C6_BucketsKeepSourceOrder ==
    call.op = "diff" =>
        LET d == call.arg[1]
            u == call.arg[2]
        IN  /\ call.value.used = Keep(d, Range(u))
            /\ call.value.not_used = Keep(d, Range(d) \ Range(u))
            /\ call.value.not_declared = Keep(u, Range(u) \ Range(d))
            /\ IsSorted(d) => IsSorted(call.value.used) /\ IsSorted(call.value.not_used)
            /\ IsSorted(u) => IsSorted(call.value.not_declared)

\* a diff of an unsorted declared list that returned an unsorted bucket
C6_Witness ==
    /\ call.op = "diff"
    /\ Len(call.value.not_used) >= 2
    /\ ~IsSorted(call.value.not_used)
    /\ ~IsSorted(call.arg[1])

---------------------------------------------------------------------------
(* get_obsparams: the declaration parser.                                 *)

\* the index of the first line boundary of s, 0 when there is none
FirstBreak(s) ==
    IF \E i \in 1..Len(s) : s[i] \in {"\n", "\r"}
    THEN CHOOSE i \in 1..Len(s) :
            s[i] \in {"\n", "\r"} /\ \A j \in 1..(i - 1) : s[j] \notin {"\n", "\r"}
    ELSE 0

RECURSIVE SplitLines(_)
\* content.splitlines(): "\n", "\r" and "\r\n" end a line; no empty last line
SplitLines(s) ==
    IF s = <<>> THEN <<>>
    ELSE LET i == FirstBreak(s)
         IN  IF i = 0 THEN <<s>>
             ELSE LET skip == IF s[i] = "\r" /\ i < Len(s) /\ s[i + 1] = "\n"
                              THEN 2 ELSE 1
                  IN  <<SubSeq(s, 1, i - 1)>> \o SplitLines(SubSeq(s, i + skip, Len(s)))

RECURSIVE ParamLoop(_, _)
\* the loop over param_val: the first field is kept when a second field
\* exists (no IndexError) and is not empty
ParamLoop(param_val, params) ==
    IF param_val = <<>> THEN params
    ELSE LET param_val_ == Head(param_val)
         IN  IF Len(param_val_) >= 2 /\ param_val_[2] # <<>>
             THEN ParamLoop(Tail(param_val), Append(params, param_val_[1]))
             ELSE ParamLoop(Tail(param_val), params)

\* get_obsparams after its read_file: line.split("=") splits at every "="
ParseObs(rf) ==
    IF rf.res.status = "raise" THEN rf
    ELSE LET lines == SplitLines(rf.res.value)
             param_val == [i \in 1..Len(lines) |-> Split(lines[i], "=", Len(lines[i]))]
         IN  [res |-> Return(ParamLoop(param_val, <<>>)), content |-> rf.content]

\* get_obsparams(path)
GetObsparams(path, cont) == ParseObs(ReadFile(path, cont))

DoGetObsparams(path) ==
    pc = "idle" /\ Called("get_obsparams", path, <<>>, GetObsparams(path, content))

\* re.sub(" *?", "", code): every space goes
RemoveSpaces(s) == LET NotSpace(c) == c # " " IN SelectSeq(s, NotSpace)

\* how many "=" stand at the head of s
RECURSIVE RunLength(_)
RunLength(s) == IF s = <<>> \/ Head(s) # "=" THEN 0 ELSE 1 + RunLength(Tail(s))

RECURSIVE RemoveRuns(_)
\* re.sub("={3,}", "", code): every run of three or more "=" goes
RemoveRuns(s) ==
    IF s = <<>> THEN <<>>
    ELSE IF RunLength(s) >= 3 THEN RemoveRuns(SubSeq(s, RunLength(s) + 1, Len(s)))
    ELSE IF RunLength(s) >= 1
    THEN SubSeq(s, 1, RunLength(s)) \o RemoveRuns(SubSeq(s, RunLength(s) + 1, Len(s)))
    ELSE <<Head(s)>> \o RemoveRuns(Tail(s))

\* re.sub("^.*?:", "", line): the line loses its part up to the first ":"
StripLabel(line) ==
    IF Find(line, ":") = 0 THEN line ELSE SubSeq(line, Find(line, ":") + 1, Len(line))

RECURSIVE MappingLoop(_, _)
\* the loop over the split lines: a line with a non-empty second field
\* gives {first field: second field}
MappingLoop(code, mapping) ==
    IF code = <<>> THEN mapping
    ELSE IF Len(Head(code)) >= 2 /\ Head(code)[2] # <<>>
    THEN MappingLoop(Tail(code),
                     Append(mapping, [key |-> Head(code)[1], value |-> Head(code)[2]]))
    ELSE MappingLoop(Tail(code), mapping)

\* the lines of the cleaned text, each without its label and split at its
\* first "="
MappingLines(lines) ==
    [i \in 1..Len(lines) |-> Split(StripLabel(lines[i]), "=", 1)]

\* extract_mapping after its read_file
ParseMapping(rf) ==
    IF rf.res.status = "raise" THEN rf
    ELSE [res |-> Return(MappingLoop(
                     MappingLines(Split(RemoveRuns(RemoveSpaces(rf.res.value)),
                                        "\n", Len(rf.res.value))), <<>>)),
          content |-> rf.content]

\* extract_mapping(path)
ExtractMapping(path, cont) == ParseMapping(ReadFile(path, cont))

DoExtractMapping(path) ==
    pc = "idle" /\ Called("extract_mapping", path, <<>>, ExtractMapping(path, content))

\* the characters of an obsfile of the model, and its texts
ObsChars == {"k", "v", "=", "\n", ":", " "}
ObsTexts == ListsUpTo(ObsChars, MaxText)

\* the obsfile u/r/o, and a path that is not there
ObsFile == <<"o">>
ObsArgs == {RepoPrefix \o SLASH \o ObsFile, RepoPrefix \o SLASH \o <<"m">>}

InitObs ==
    \E t \in ObsTexts :
       InitWith([p \in {ObsFile} |-> [type |-> "file", bytes |-> t]], NoInput)

NextObs ==
    \E path \in ObsArgs :
       \/ DoGetObsparams(path)
       \/ DoExtractMapping(path)

SpecObs == InitObs /\ [][NextObs]_vars

\* the part of a line before its first "=", and the part after it
KeySide(line) == SubSeq(line, 1, Find(line, "=") - 1)
ValueSide(line) == SubSeq(line, Find(line, "=") + 1, Len(line))

\* whether a line has a "=" with something after the first one
HasValue(line) == Find(line, "=") # 0 /\ ValueSide(line) # <<>>

\* C2 as claimed: get_obsparams returns, in line order, the key of every line
\* whose part after the first "=" is not empty, and of no other line
C2_FirstEqualsSplit ==
    call.op = "get_obsparams" /\ call.status = "return" =>
        LET lines == SelectSeq(SplitLines(repo[ObsFile].bytes), HasValue)
        IN  call.value = [i \in 1..Len(lines) |-> KeySide(lines[i])]

---------------------------------------------------------------------------
(* params_extract_eval and eval_param: the evaluative reference extractor. *)
(* The regular expressions are matched on the characters of the content.   *)
(* What exec(content) and eval("pymodule." + param) do is an input of the   *)
(* model: input.exec is "ok" or the exception exec raises, input.ns the    *)
(* names bound in the module's namespace afterwards, with their values.    *)
(* The rewriting under ignore_import only changes the text handed to exec. *)

\* the trigger of the model, ["o[", "]"], which re.escape leaves literal
TriggerPrefix == <<"o", "[">>
TriggerSuffix == <<"]">>
Quotes == {"'", "\""}

\* whether the literal lit occurs in s at index i
MatchesAt(s, i, lit) ==
    i + Len(lit) - 1 <= Len(s) /\ SubSeq(s, i, i + Len(lit) - 1) = lit

\* "." matches anything but a newline
NoNewline(s, from, to) == \A k \in from..to : s[k] # "\n"

Min(S) == CHOOSE x \in S : \A y \in S : x <= y

\* where the suffix may start for a non-greedy group that starts at g
SpanEnds(s, g) ==
    {j \in g..(Len(s) + 1) : MatchesAt(s, j, TriggerSuffix) /\ NoNewline(s, g, j - 1)}

RECURSIVE FindSpans(_, _)
\* re.findall(prefix(.*?)suffix, content), scanning from index i
FindSpans(s, i) ==
    IF i > Len(s) THEN <<>>
    ELSE IF MatchesAt(s, i, TriggerPrefix) /\ SpanEnds(s, i + Len(TriggerPrefix)) # {}
    THEN <<SubSeq(s, i + Len(TriggerPrefix), Min(SpanEnds(s, i + Len(TriggerPrefix))) - 1)>>
            \o FindSpans(s, Min(SpanEnds(s, i + Len(TriggerPrefix))) + Len(TriggerSuffix))
    ELSE FindSpans(s, i + 1)

\* where the closing quote may be for a quoted group whose text starts at g
QuotedEnds(s, g) ==
    {k \in g..Len(s) :
        s[k] \in Quotes /\ MatchesAt(s, k + 1, TriggerSuffix) /\ NoNewline(s, g, k - 1)}

\* whether prefix and an opening quote occur at i, with a way to close
QuotedAt(s, i) ==
    /\ MatchesAt(s, i, TriggerPrefix)
    /\ i + Len(TriggerPrefix) <= Len(s)
    /\ s[i + Len(TriggerPrefix)] \in Quotes
    /\ QuotedEnds(s, i + Len(TriggerPrefix) + 1) # {}

RECURSIVE FindQuoted(_, _)
\* re.findall(prefix['"](.*?)['"]suffix, content), scanning from index i
FindQuoted(s, i) ==
    IF i > Len(s) THEN <<>>
    ELSE IF QuotedAt(s, i)
    THEN <<SubSeq(s, i + Len(TriggerPrefix) + 1,
                  Min(QuotedEnds(s, i + Len(TriggerPrefix) + 1)) - 1)>>
            \o FindQuoted(s, Min(QuotedEnds(s, i + Len(TriggerPrefix) + 1))
                               + 1 + Len(TriggerSuffix))
    ELSE FindQuoted(s, i + 1)

\* the exceptions of exec that eval_param catches, and what exec may do
Recoverable == {"ModuleNotFoundError", "NameError", "IndentationError"}
ExecOutcomes == {"ok"} \cup Recoverable \cup {"SyntaxError", "ZeroDivisionError"}

\* " -> " and the value eval_param puts in place of a failed read
Arrow == <<" ", "-", ">", " ">>
Sentinel == <<"?", "?", "?">>

RECURSIVE Decimal(_)
\* str(n) of a natural number
Decimal(n) ==
    LET digit == <<"0", "1", "2", "3", "4", "5", "6", "7", "8", "9">>[(n % 10) + 1]
    IN  IF n < 10 THEN <<digit>> ELSE Append(Decimal(n \div 10), digit)

\* str(true_param)
PyStr(v) == IF v.t = "int" THEN Decimal(v.n) ELSE v.s

\* eval("pymodule." + param) under try/except Exception: the value bound to
\* the name, or "???" when the read fails
ReadParam(param) ==
    IF param \in DOMAIN input.ns THEN input.ns[param]
    ELSE [t |-> "str", s |-> Sentinel, n |-> 0]

\* eval_param with no except clause for IndentationError
EvalParamNoIndent(path, param) ==
    IF Find(BaseName(path), ".") = 0 THEN Raise("AttributeError")
    ELSE IF input.exec \notin {"ok", "ModuleNotFoundError", "NameError"}
    THEN Raise(input.exec)
    ELSE Return(param \o Arrow \o PyStr(ReadParam(param)))

\* eval_param with the failed read left to propagate
EvalParamNoSentinel(path, param) ==
    IF Find(BaseName(path), ".") = 0 THEN Raise("AttributeError")
    ELSE IF input.exec \notin {"ok"} \cup Recoverable THEN Raise(input.exec)
    ELSE IF param \notin DOMAIN input.ns THEN Raise("AttributeError")
    ELSE Return(param \o Arrow \o PyStr(ReadParam(param)))

\* eval_param(path, content, param): m.start() fails on a file name with no
\* "."; exec's ModuleNotFoundError, NameError and IndentationError are
\* caught, anything else it raises propagates; then the read and the token
EvalParam(path, param) ==
    IF Find(BaseName(path), ".") = 0 THEN Raise("AttributeError")
    ELSE IF input.exec \notin {"ok"} \cup Recoverable THEN Raise(input.exec)
    ELSE Return(param \o Arrow \o PyStr(ReadParam(param)))

RECURSIVE EvalLoopFrom(_, _, _, _, _)
RECURSIVE EvalLoop(_, _, _, _)
\* the loop over all_params: a span that is not among the quoted names is
\* evaluated; an exception out of eval_param ends the loop and the call
EvalLoop(rest, params, path, true_params) ==
    IF rest = <<>> THEN Return(true_params)
    ELSE IF Head(rest) \in Range(params)
    THEN EvalLoop(Tail(rest), params, path, true_params)
    ELSE EvalLoopFrom(EvalParam(path, Head(rest)), Tail(rest), params, path, true_params)

\* the loop after one eval_param
EvalLoopFrom(token, rest, params, path, true_params) ==
    IF token.status = "raise" THEN token
    ELSE EvalLoop(rest, params, path, Append(true_params, token.value))

\* the end of params_extract_eval: sorted(list(set(params + true_params)))
ExtractMerge(params, evaluated, cont) ==
    IF evaluated.status = "raise" THEN [res |-> evaluated, content |-> cont]
    ELSE [res |-> Return(SortedSeq(Range(params \o evaluated.value))), content |-> cont]

\* params_extract_eval on the content read
ExtractText(text, params, path, cont) ==
    ExtractMerge(params, EvalLoop(FindSpans(text, 1), params, path, <<>>), cont)

\* params_extract_eval after its read_file
ExtractRead(rf, path) ==
    IF rf.res.status = "raise" THEN rf
    ELSE ExtractText(rf.res.value, FindQuoted(rf.res.value, 1), path, rf.content)

\* params_extract_eval(["o[", "]"], path)
ParamsExtractEval(path, cont) == ExtractRead(ReadFile(path, cont), path)

DoParamsExtractEval(path) ==
    pc = "idle" /\ Called("params_extract_eval", path, <<>>, ParamsExtractEval(path, content))

\* where the closing quote may be for a quoted group whose text starts at
\* g, when anything but a newline may stand between it and the suffix
LooseEnds(s, g) ==
    {k \in g..Len(s) :
        s[k] \in Quotes /\ NoNewline(s, g, k - 1) /\ SpanEnds(s, k + 1) # {}}

\* whether prefix and an opening quote occur at i, with a way to close
LooseAt(s, i) ==
    /\ MatchesAt(s, i, TriggerPrefix)
    /\ i + Len(TriggerPrefix) <= Len(s)
    /\ s[i + Len(TriggerPrefix)] \in Quotes
    /\ LooseEnds(s, i + Len(TriggerPrefix) + 1) # {}

RECURSIVE FindLoose(_, _)
\* re.findall(prefix['"](.*?)['"].*?suffix, content), scanning from index i
FindLoose(s, i) ==
    IF i > Len(s) THEN <<>>
    ELSE IF LooseAt(s, i)
    THEN <<SubSeq(s, i + Len(TriggerPrefix) + 1,
                  Min(LooseEnds(s, i + Len(TriggerPrefix) + 1)) - 1)>>
            \o FindLoose(s, Min(SpanEnds(s, Min(LooseEnds(s, i + Len(TriggerPrefix) + 1)) + 1))
                              + Len(TriggerSuffix))
    ELSE FindLoose(s, i + 1)

\* params_extract after its read_file: the quoted names, each once, sorted
ExtractQuoted(rf) ==
    IF rf.res.status = "raise" THEN rf
    ELSE [res |-> Return(SortedSeq(Range(FindLoose(rf.res.value, 1)))),
          content |-> rf.content]

\* params_extract(["o[", "]"], path)
ParamsExtract(path, cont) == ExtractQuoted(ReadFile(path, cont))

DoParamsExtract(path) ==
    pc = "idle" /\ Called("params_extract", path, <<>>, ParamsExtract(path, content))

\* re.findall(prefix(.*?).*?suffix, content): the group of every match is
\* empty, the first of two non-greedy parts taking nothing
AllEmpty(spans) == [i \in 1..Len(spans) |-> <<>>]

\* " = " in front of a quoted value
Assigns == <<" ", "=", " ">>

\* where the closing quote may be for an assigned value that starts at g
AssignedEnds(s, g) == {k \in g..Len(s) : s[k] \in Quotes /\ NoNewline(s, g, k - 1)}

\* whether " = " and an opening quote occur at i, with a closing quote
AssignedAt(s, i) ==
    /\ MatchesAt(s, i, Assigns)
    /\ i + Len(Assigns) <= Len(s)
    /\ s[i + Len(Assigns)] \in Quotes
    /\ AssignedEnds(s, i + Len(Assigns) + 1) # {}

RECURSIVE FirstAssigned(_, _)
\* re.findall(param + " = ['\"](.*?)['\"]", content)[:1] for the empty
\* param, scanning from index i
FirstAssigned(s, i) ==
    IF i > Len(s) THEN <<>>
    ELSE IF AssignedAt(s, i)
    THEN <<SubSeq(s, i + Len(Assigns) + 1, Min(AssignedEnds(s, i + Len(Assigns) + 1)) - 1)>>
    ELSE FirstAssigned(s, i + 1)

RECURSIVE MatchLoop(_, _, _, _)
\* the loop over all_params: a param that is not among the quoted names is
\* looked up as an assignment; param_[0] is kept, an IndexError is printed
MatchLoop(rest, params, found, true_params) ==
    IF rest = <<>> THEN true_params
    ELSE IF Head(rest) \in Range(params)
    THEN MatchLoop(Tail(rest), params, found, true_params)
    ELSE MatchLoop(Tail(rest), params, found, true_params \o found)

\* params_extract_match on the content read
MatchText(text, params, cont) ==
    [res |-> Return(SortedSeq(Range(
                params \o MatchLoop(AllEmpty(FindSpans(text, 1)), params,
                                    FirstAssigned(text, 1), <<>>)))),
     content |-> cont]

\* params_extract_match after its read_file
MatchRead(rf) ==
    IF rf.res.status = "raise" THEN rf
    ELSE MatchText(rf.res.value, FindLoose(rf.res.value, 1), rf.content)

\* params_extract_match(["o[", "]"], path)
ParamsExtractMatch(path, cont) == MatchRead(ReadFile(path, cont))

DoParamsExtractMatch(path) ==
    /\ pc = "idle"
    /\ Called("params_extract_match", path, <<>>, ParamsExtractMatch(path, content))

\* obsfile_params_check.eval_param(path, content, param), called directly
DoEvalParam(path, param) ==
    /\ pc = "idle"
    /\ Called("eval_param", path, param, [res |-> EvalParam(path, param), content |-> content])

\* what may stand between the trigger's brackets in a script of the model: a
\* quoted name, variables, and a bare name that is also quoted elsewhere
RefSpans == {<<"'", "p", "'">>, <<"v">>, <<"w">>, <<"p">>}

RECURSIVE ScriptText(_)
\* the script: one line "o[<span>]" per reference
ScriptText(refs) ==
    IF refs = <<>> THEN <<>>
    ELSE TriggerPrefix \o Head(refs) \o TriggerSuffix \o <<"\n">> \o ScriptText(Tail(refs))

\* a line of the script that assigns a quoted value
AssignLine == <<"v", " ", "=", " ", "'", "x", "'", "\n">>

\* the script with or without the assignment after its references
ScriptBytes(refs, assign) == ScriptText(refs) \o (IF assign THEN AssignLine ELSE <<>>)

\* the namespaces exec may leave: v a string, w an integer, each bound or not
Namespaces ==
    LET vx == [t |-> "str", s |-> <<"x">>, n |-> 0]
        w7 == [t |-> "int", s |-> <<>>, n |-> 7]
    IN  {[k \in {} |-> vx], [k \in {<<"v">>} |-> vx], [k \in {<<"w">>} |-> w7],
         [k \in {<<"v">>, <<"w">>} |-> IF k = <<"v">> THEN vx ELSE w7]}

\* the script's file name, with an extension or without
ScriptNames == {<<"s", ".", "p", "y">>, <<"s">>}
ScriptArgs == {RepoPrefix \o SLASH \o n : n \in ScriptNames}

InitEval ==
    \E refs \in ListsUpTo(RefSpans, MaxRefs), name \in ScriptNames,
       e \in ExecOutcomes, ns \in Namespaces, assign \in BOOLEAN :
       InitWith([p \in {name} |-> [type |-> "file", bytes |-> ScriptBytes(refs, assign)]],
                [refs |-> refs, exec |-> e, ns |-> ns, assign |-> assign])

NextEval ==
    \E path \in ScriptArgs :
       \/ DoParamsExtractEval(path)
       \/ DoParamsExtract(path)
       \/ DoParamsExtractMatch(path)
       \/ \E param \in RefSpans : DoEvalParam(path, param)

SpecEval == InitEval /\ [][NextEval]_vars

\* whether the file name of a path has a "."
HasExtension(path) == \E i \in 1..Len(BaseName(path)) : BaseName(path)[i] = "."

\* whether exec of the content ends, or raises what eval_param catches
ExecRecovers ==
    input.exec \in {"ok", "ModuleNotFoundError", "NameError", "IndentationError"}

\* the text str() gives for the value the namespace binds to a name: v is
\* the string x, w the integer 7
Shown(name) == IF name = <<"v">> THEN <<"x">> ELSE <<"7">>

\* C7 as claimed: when the read of the variable fails the token is
\* "<name> -> <unresolved>", when it succeeds "<name> -> <value>"
C7_UnresolvedSentinel ==
    call.op = "eval_param" /\ HasExtension(call.path) /\ ExecRecovers =>
        /\ call.status = "return"
        /\ call.value =
              IF call.arg \in DOMAIN input.ns
              THEN call.arg \o <<" ", "-", ">", " ">> \o Shown(call.arg)
              ELSE call.arg \o <<" ", "-", ">", " ">>
                     \o <<"<", "u", "n", "r", "e", "s", "o", "l", "v", "e", "d", ">">>

\* C7 as amended: when the read of the variable fails the token is
\* "<name> -> ???", when it succeeds "<name> -> <value>"
C7_QuestionMarkSentinel ==
    call.op = "eval_param" /\ HasExtension(call.path) /\ ExecRecovers =>
        /\ call.status = "return"
        /\ call.value =
              IF call.arg \in DOMAIN input.ns
              THEN call.arg \o <<" ", "-", ">", " ">> \o Shown(call.arg)
              ELSE call.arg \o <<" ", "-", ">", " ">> \o <<"?", "?", "?">>

\* eval_param of w, which exec left unbound after a NameError, returned
\* "w -> ???"
C7_Witness ==
    /\ call.op = "eval_param" /\ call.arg = <<"w">> /\ input.exec = "NameError"
    /\ <<"w">> \notin DOMAIN input.ns
    /\ call.status = "return"
    /\ call.value = <<"w", " ", "-", ">", " ", "?", "?", "?">>

\* the names the script references in quotes, and the references that are
\* evaluated: those that are not one of these names
IsQuoted(span) == Len(span) >= 2 /\ span[1] = "'" /\ span[Len(span)] = "'"
LiteralNames ==
    {SubSeq(input.refs[i], 2, Len(input.refs[i]) - 1) :
        i \in {j \in 1..Len(input.refs) : IsQuoted(input.refs[j])}}
EvaluatedRefs == {r \in Range(input.refs) : r \notin LiteralNames}

\* the token of an evaluated reference
TokenOf(span) ==
    span \o <<" ", "-", ">", " ">>
         \o (IF span \in DOMAIN input.ns THEN Shown(span) ELSE <<"?", "?", "?">>)

\* whether params_extract_eval's read_file finds the script
ScriptRead(path) == InRepo(path) /\ Target(path) \in DOMAIN repo

\* C8 as claimed: whatever exec does, eval_param returns a token and
\* params_extract_eval returns a list with a token of every evaluated
\* reference (for a script whose file name has an extension)
C8_NeverAborts ==
    /\ call.op = "eval_param" /\ HasExtension(call.path) => call.status = "return"
    /\ call.op = "params_extract_eval" /\ ScriptRead(call.path) /\ HasExtension(call.path) =>
          /\ call.status = "return"
          /\ \A r \in EvaluatedRefs : TokenOf(r) \in Range(call.value)

\* C8 as amended: eval_param raises exactly when the file name has no "."
\* or exec raises something other than ModuleNotFoundError, NameError and
\* IndentationError; params_extract_eval then aborts with that exception if
\* it evaluates any reference; otherwise it returns the sorted quoted names
\* and one token per evaluated reference, failed reads included
C8_AbortsOnlyOnUncaught ==
    /\ call.op = "eval_param" =>
          (call.status = "raise" <=> ~HasExtension(call.path) \/ ~ExecRecovers)
    /\ call.op = "params_extract_eval" /\ ScriptRead(call.path) =>
          IF EvaluatedRefs # {} /\ (~HasExtension(call.path) \/ ~ExecRecovers)
          THEN /\ call.status = "raise"
               /\ call.error = IF HasExtension(call.path) THEN input.exec
                               ELSE "AttributeError"
          ELSE /\ call.status = "return"
               /\ Range(call.value) = LiteralNames \cup {TokenOf(r) : r \in EvaluatedRefs}
               /\ IsSorted(call.value)
               /\ NoDuplicates(call.value)

\* params_extract_eval went on after an IndentationError of exec and
\* returned the token of a read that worked and of one that failed
C8_Witness ==
    /\ call.op = "params_extract_eval" /\ call.status = "return"
    /\ input.exec = "IndentationError"
    /\ input.refs = <<<<"v">>, <<"w">>>>
    /\ call.value = <<<<"v", " ", "-", ">", " ", "x">>,
                      <<"w", " ", "-", ">", " ", "?", "?", "?">>>>

---------------------------------------------------------------------------
(* list_from_launch: the launch-graph resolver.                           *)
(* A launch file's bytes are its XML text; an Element is its tag, its      *)
(* attributes and its children.  ET.fromstring is the inverse of writing   *)
(* a document out, over the documents of the model.                        *)

TagInclude == <<"i", "n", "c", "l", "u", "d", "e">>
TagNode == <<"n", "o", "d", "e">>
TagRemap == <<"r", "e", "m", "a", "p">>
TagLaunch == <<"l", "a", "u", "n", "c", "h">>
AttrFile == <<"f", "i", "l", "e">>
AttrType == <<"t", "y", "p", "e">>
AttrFrom == <<"f", "r", "o", "m">>
AttrTo == <<"t", "o">>
DotLaunch == <<".", "l", "a", "u", "n", "c", "h">>

\* an Element with no child
Leaf(tag, attrib) == [tag |-> tag, attrib |-> attrib, children |-> <<>>]

\* <include file="..."/>
Include(file) == Leaf(TagInclude, [a \in {AttrFile} |-> file])

\* <remap from="..." to="..."/>
Remap(from, to) == Leaf(TagRemap, [a \in {AttrFrom, AttrTo} |-> IF a = AttrFrom THEN from ELSE to])

\* the top-level elements a launch file of the model may hold
ElementKinds == {"incX", "incY", "incZ", "incBad", "node1", "node2"}

\* the launch files of the model: x.launch in the root, l/y.launch
LaunchX == <<"x", ".", "l", "a", "u", "n", "c", "h">>
LaunchY == <<"l", "/", "y", ".", "l", "a", "u", "n", "c", "h">>
LaunchDir == <<"l">>

\* the Element of each kind: includes of x.launch, of l/y.launch, of a file
\* that is not there and of a file attribute with no "/", and two nodes
Element(kind) ==
    CASE kind = "incX" -> Include(<<"$", "p", "/", "x", ".", "l", "a", "u", "n", "c", "h">>)
      [] kind = "incY" -> Include(<<"$", "p", "/", "l", "/", "y", ".", "l", "a", "u", "n", "c", "h">>)
      [] kind = "incZ" -> Include(<<"$", "p", "/", "z", ".", "l", "a", "u", "n", "c", "h">>)
      [] kind = "incBad" -> Include(<<"y", ".", "l", "a", "u", "n", "c", "h">>)
      [] kind = "node1" ->
            [tag |-> TagNode, attrib |-> [a \in {AttrType} |-> <<"a">>],
             children |-> <<Remap(<<"b">>, <<"c">>)>>]
      [] kind = "node2" -> Leaf(TagNode, [a \in {AttrType} |-> <<"d">>])

RECURSIVE Concat(_)
\* "".join(parts)
Concat(parts) == IF parts = <<>> THEN <<>> ELSE Head(parts) \o Concat(Tail(parts))

\* the attributes of an element as XML text
WriteAttrs(attrib) ==
    Concat([i \in 1..4 |->
              LET name == <<AttrFile, AttrType, AttrFrom, AttrTo>>[i]
              IN  IF name \in DOMAIN attrib
                  THEN <<" ">> \o name \o <<"=", "\"">> \o attrib[name] \o <<"\"">>
                  ELSE <<>>])

\* an element with no child as XML text
WriteLeaf(e) == <<"<">> \o e.tag \o WriteAttrs(e.attrib) \o <<"/", ">">>

\* an element as XML text
WriteElement(e) ==
    IF e.children = <<>> THEN WriteLeaf(e)
    ELSE <<"<">> \o e.tag \o WriteAttrs(e.attrib) \o <<">">>
           \o Concat([i \in 1..Len(e.children) |-> WriteLeaf(e.children[i])])
           \o <<"<", "/">> \o e.tag \o <<">">>

\* a launch document, given by its top-level elements, as XML text
WriteLaunch(doc) ==
    <<"<">> \o TagLaunch \o <<">">>
       \o Concat([i \in 1..Len(doc) |-> WriteElement(doc[i])])
       \o <<"<", "/">> \o TagLaunch \o <<">">>

\* the documents of the model
Documents ==
    {[i \in 1..Len(kinds) |-> Element(kinds[i])] :
        kinds \in ListsUpTo(ElementKinds, MaxChildren)}

\* ET.fromstring(code): the root's children, in document order
FromString(code) ==
    IF \E doc \in Documents : WriteLaunch(doc) = code
    THEN Return(CHOOSE doc \in Documents : WriteLaunch(doc) = code)
    ELSE Raise("ParseError")

\* Element.get(name): None for an attribute that is not there
NoneValue == <<"None">>
Get(e, name) == IF name \in DOMAIN e.attrib THEN e.attrib[name] ELSE NoneValue

\* node.iter("remap"): the node itself and its descendants, in document
\* order, that have the tag
IterRemap(node) ==
    LET IsRemap(e) == e.tag = TagRemap
    IN  SelectSeq(<<Leaf(node.tag, node.attrib)>> \o node.children, IsRemap)

\* one record of the result: the node's type and its remap rules
NodeRecord(node) ==
    [type |-> Get(node, AttrType),
     remap |-> [i \in 1..Len(IterRemap(node)) |->
                  [from |-> Get(IterRemap(node)[i], AttrFrom),
                   to |-> Get(IterRemap(node)[i], AttrTo)]]]

\* the loop may run for ever: the model follows it for as many turns as
\* the longest call that ends takes, which is one turn for each element of
\* the root file, of the files it includes and of the files those include
LoopCap == MaxChildren + MaxChildren * MaxChildren + MaxChildren * MaxChildren * MaxChildren

\* list_from_launch has started its loop
Started(path, rf, doc) ==
    /\ call' = [op |-> "list_from_launch", path |-> path, arg |-> <<>>,
                status |-> "running", value |-> <<>>, error |-> "none"]
    /\ content' = rf.content
    /\ prev' = content
    /\ pc' = "loop"
    /\ elements' = doc
    /\ nodes' = <<>>
    /\ turns' = 0
    /\ UNCHANGED <<repo, input, other>>

\* list_from_launch after the root's read_file and its parse
StartParsed(path, rf, parsed) ==
    IF parsed.status = "raise"
    THEN Called("list_from_launch", path, <<>>, [res |-> parsed, content |-> rf.content])
    ELSE Started(path, rf, parsed.value)

\* list_from_launch after the root's read_file
StartRead(path, rf) ==
    IF rf.res.status = "raise" THEN Called("list_from_launch", path, <<>>, rf)
    ELSE StartParsed(path, rf, FromString(rf.res.value))

\* list_from_launch(path, path_dict) up to its loop: a path that does not
\* end in ".launch" returns [] and fetches nothing
LaunchStart(path) ==
    /\ pc = "idle"
    /\ IF Suffix(path, 7) # DotLaunch
       THEN Called("list_from_launch", path, <<>>, [res |-> Return(<<>>), content |-> content])
       ELSE StartRead(path, ReadFile(path, content))

\* the call in progress ends: it returns or raises
Ended(r) ==
    /\ call' = [call EXCEPT !.status = r.res.status, !.value = r.res.value,
                            !.error = r.res.error]
    /\ content' = r.content
    /\ pc' = "idle"
    /\ elements' = <<>>
    /\ nodes' = <<>>
    /\ turns' = 0
    /\ UNCHANGED <<repo, input, other, prev>>

\* an include whose file was read and parsed, with the included elements
\* left out of the worklist
StepExtendDropped(rf, parsed) ==
    IF parsed.status = "raise" THEN Ended([res |-> parsed, content |-> rf.content])
    ELSE /\ elements' = Tail(elements)
         /\ content' = rf.content
         /\ turns' = turns + 1
         /\ UNCHANGED <<repo, input, other, prev, call, pc, nodes>>

\* an include whose file was read and parsed, with the include element
\* itself kept as a node
StepExtendKept(rf, parsed) ==
    IF parsed.status = "raise" THEN Ended([res |-> parsed, content |-> rf.content])
    ELSE /\ elements' = Tail(elements) \o parsed.value
         /\ nodes' = Append(nodes, Head(elements))
         /\ content' = rf.content
         /\ turns' = turns + 1
         /\ UNCHANGED <<repo, input, other, prev, call, pc>>

\* an include whose file was read and parsed: elements.extend(...)
StepExtend(rf, parsed) ==
    IF parsed.status = "raise" THEN Ended([res |-> parsed, content |-> rf.content])
    ELSE /\ elements' = Tail(elements) \o parsed.value
         /\ content' = rf.content
         /\ turns' = turns + 1
         /\ UNCHANGED <<repo, input, other, prev, call, pc, nodes>>

\* an include after the read_file of its file
StepFetched(rf) ==
    IF rf.res.status = "raise" THEN Ended(rf)
    ELSE StepExtend(rf, FromString(rf.res.value))

\* an include: the file attribute loses its part up to the first "/" and is
\* read under the user and repository of the call's path
StepInclude(file, path) ==
    IF Len(file) < 2 THEN Ended([res |-> Raise("IndexError"), content |-> content])
    ELSE StepFetched(ReadFile(Join(<<path[1], path[2], file[2]>>, SLASH), content))

\* one turn of the while loop: pop the first element; an include is
\* expanded, anything else is a node
LaunchStep ==
    /\ pc = "loop"
    /\ elements # <<>>
    /\ turns < LoopCap
    /\ IF Head(elements).tag = TagInclude
       THEN StepInclude(Split(Get(Head(elements), AttrFile), "/", 1),
                        Split(call.path, "/", 2))
       ELSE /\ nodes' = Append(nodes, Head(elements))
            /\ elements' = Tail(elements)
            /\ turns' = turns + 1
            /\ UNCHANGED <<repo, input, other, content, prev, call, pc>>

\* the worklist is empty: the records of the nodes are returned
LaunchFinish ==
    /\ pc = "loop"
    /\ elements = <<>>
    /\ Ended([res |-> Return([i \in 1..Len(nodes) |-> NodeRecord(nodes[i])]),
              content |-> content])

\* the remote repository with the two launch files written out
LaunchRepo(x, y) ==
    [p \in {LaunchX, LaunchDir, LaunchY} |->
       IF p = LaunchDir THEN [type |-> "dir", bytes |-> <<>>]
       ELSE [type |-> "file",
             bytes |-> WriteLaunch([i \in 1..Len(IF p = LaunchX THEN x ELSE y) |->
                                      Element((IF p = LaunchX THEN x ELSE y)[i])])]]

\* the paths list_from_launch is called with: the two launch files, a
\* directory, and a launch file that is not there
LaunchArgs ==
    {RepoPrefix \o SLASH \o p : p \in {LaunchX, LaunchY, LaunchDir, <<"z", ".", "l", "a", "u", "n", "c", "h">>}}

InitLaunch ==
    \E x \in ListsUpTo(ElementKinds, MaxChildren), y \in ListsUpTo(ElementKinds, MaxChildren) :
       InitWith(LaunchRepo(x, y), [x |-> x, y |-> y])

NextLaunch ==
    \/ \E path \in LaunchArgs : LaunchStart(path)
    \/ LaunchStep
    \/ LaunchFinish

SpecLaunch == InitLaunch /\ [][NextLaunch]_vars

\* a turn of the while loop, or its exit
LoopTurn == LaunchStep \/ LaunchFinish

\* ENABLED <<LoopTurn>>_vars written out: the call is inside the loop, and
\* either the worklist is empty or the turn is within the bound of the
\* model; every turn changes turns or pc, so none is a stuttering step
LoopEnabled ==
    /\ pc = "loop"
    /\ elements = <<>> \/ turns < LoopCap

\* the loop is one thread of control: while it can take a turn it does.
\* This is weak fairness of LoopTurn with its enabling condition spelled out.
SpecLaunchFair == SpecLaunch /\ (<>[]LoopEnabled => []<><<LoopTurn>>_vars)

---------------------------------------------------------------------------
(* The include graph, read off the element kinds the launch files were    *)
(* written from (input.x for x.launch, input.y for l/y.launch).           *)

LaunchFiles == {"x", "y"}
RootX == <<"u", "/", "r", "/", "x", ".", "l", "a", "u", "n", "c", "h">>
RootY == <<"u", "/", "r", "/", "l", "/", "y", ".", "l", "a", "u", "n", "c", "h">>

\* the launch file a root path names
FileOf(path) == IF path = RootX THEN "x" ELSE "y"

\* the top-level element kinds of a launch file
KindsOf(f) == IF f = "x" THEN input.x ELSE input.y

IsInclude(kind) == kind \in {"incX", "incY", "incZ", "incBad"}

\* the launch file an include resolves to, when there is one
TargetOf(kind) ==
    CASE kind = "incX" -> "x" [] kind = "incY" -> "y" [] OTHER -> "none"

\* the files a file includes directly
Included(f) == {TargetOf(k) : k \in Range(KindsOf(f))} \cap LaunchFiles

\* the files reachable from a file through includes, itself among them
Closure(S) == S \cup UNION {Included(f) : f \in S}
Reach(f) == Closure(Closure({f}))

\* a file that is reachable from itself is reachable from the root
CycleReachable(root) == \E f \in Reach(root) : \E g \in Included(f) : f \in Reach(g)

\* every include reachable from the root names a file that can be fetched
FetchesSucceed(root) ==
    \A f \in Reach(root) : \A k \in Range(KindsOf(f)) : k \notin {"incZ", "incBad"}

\* the record of each kind of node
RecordOf(kind) ==
    IF kind = "node1"
    THEN [type |-> <<"a">>, remap |-> <<[from |-> <<"b">>, to |-> <<"c">>]>>]
    ELSE [type |-> <<"d">>, remap |-> <<>>]

RECURSIVE Flattened(_, _)
\* the records of a file with every include replaced by the records of the
\* file it names, to the given depth of inclusion
Flattened(kinds, depth) ==
    IF kinds = <<>> THEN <<>>
    ELSE IF ~IsInclude(Head(kinds))
    THEN <<RecordOf(Head(kinds))>> \o Flattened(Tail(kinds), depth)
    ELSE IF depth = 0 \/ TargetOf(Head(kinds)) \notin LaunchFiles
    THEN Flattened(Tail(kinds), depth)
    ELSE Flattened(KindsOf(TargetOf(Head(kinds))), depth - 1)
            \o Flattened(Tail(kinds), depth)

\* how often x occurs in the list s
Count(s, x) == Cardinality({i \in 1..Len(s) : s[i] = x})

\* the two lists hold the same elements the same number of times
SameBag(s, t) ==
    /\ Len(s) = Len(t)
    /\ \A i \in 1..Len(s) : Count(s, s[i]) = Count(t, s[i])

NoInclude(kinds) == \A i \in 1..Len(kinds) : ~IsInclude(kinds[i])

\* C5: list_from_launch of a ".launch" path returns one record per
\* non-include element of the root file and of the files reached through
\* includes, and none for an include: with no include exactly the direct
\* children, with a single include as only child exactly the nodes of the
\* file at owner/repo/<file attribute after its first "/">
C5_FlattenedNodes ==
    call.op = "list_from_launch" /\ call.status = "return" /\ call.path \in {RootX, RootY} =>
        LET kinds == KindsOf(FileOf(call.path))
        IN  /\ SameBag(call.value, Flattened(kinds, Cardinality(LaunchFiles)))
            /\ NoInclude(kinds) =>
                  call.value = [i \in 1..Len(kinds) |-> RecordOf(kinds[i])]
            /\ Len(kinds) = 1 /\ IsInclude(kinds[1]) =>
                  /\ TargetOf(kinds[1]) \in LaunchFiles
                  /\ SameBag(call.value,
                             Flattened(KindsOf(TargetOf(kinds[1])), Cardinality(LaunchFiles)))
                  /\ NoInclude(KindsOf(TargetOf(kinds[1]))) =>
                        call.value = [i \in 1..Len(KindsOf(TargetOf(kinds[1]))) |->
                                        RecordOf(KindsOf(TargetOf(kinds[1]))[i])]

\* list_from_launch of x.launch, whose only child includes l/y.launch,
\* returned the two nodes of l/y.launch
C5_Witness ==
    /\ call.op = "list_from_launch" /\ call.status = "return" /\ call.path = RootX
    /\ input.x = <<"incY">>
    /\ input.y = <<"node2", "node1">>
    /\ call.value = <<[type |-> <<"d">>, remap |-> <<>>],
                      [type |-> <<"a">>, remap |-> <<[from |-> <<"b">>, to |-> <<"c">>]>>]>>

\* list_from_launch of a file with nodes around an include returned the
\* nodes of both files and nothing for the include
C5_WitnessMixed ==
    /\ call.op = "list_from_launch" /\ call.status = "return" /\ call.path = RootX
    /\ input.x = <<"incY", "node1">>
    /\ input.y = <<"node2", "node2">>
    /\ Len(call.value) = 3

\* the model stops following the loop only in calls that never end: a cycle
\* is reachable from the root and no include on the way fails
CutOnlyEndless ==
    pc = "loop" /\ turns = LoopCap /\ elements # <<>> =>
        CycleReachable(FileOf(call.path)) /\ FetchesSucceed(FileOf(call.path))

\* while the loop runs on a root from which an include cycle is reachable,
\* the worklist is not empty at the head of the loop and nothing is returned
NeverEmptyOnCycle ==
    call.op = "list_from_launch" /\ call.path \in {RootX, RootY}
      /\ CycleReachable(FileOf(call.path)) =>
        /\ pc = "loop" => elements # <<>>
        /\ call.status # "return"

\* C9: with every fetch succeeding, the loop reaches "worklist empty" and
\* returns if and only if no include cycle is reachable from the root; on a
\* cycle the worklist never becomes empty and nothing is returned
C9_TerminatesIffAcyclic ==
    /\ []NeverEmptyOnCycle
    /\ \A root \in {RootX, RootY} :
          (pc = "loop" /\ call.path = root /\ FetchesSucceed(FileOf(root))
             /\ ~CycleReachable(FileOf(root)))
          ~> (pc = "idle" /\ call.path = root /\ call.status = "return")

\* the loop, several turns into the cycle x.launch -> l/y.launch -> x.launch,
\* has collected more nodes than the two files hold and still has work
C9_Witness ==
    /\ pc = "loop" /\ call.path = RootX
    /\ input.x = <<"node1", "incY">>
    /\ input.y = <<"incX">>
    /\ Len(nodes) >= 3
    /\ elements # <<>>

=============================================================================
